---- MODULE Spec2Model ----
(***************************************************************************)
(* The diff-and-risk engine of automation/shared/diff_suite.py: the three  *)
(* typed differencers (diff_network, diff_assets, diff_tokens) and         *)
(* risk_rating, applied to artefact documents shaped as the repository's   *)
(* producers write them; and one invocation of main over the artefact      *)
(* files of the two platforms (resolve_previous, load_json, the two report *)
(* files, the stored baselines, the exit status).                          *)
(*                                                                         *)
(* A JSON object is a function whose domain is a finite set of strings, a  *)
(* JSON array is a sequence, and the value of dict.get(key) is an optional *)
(* value: <<v>> when the key is present, <<>> (Python's None) when not.    *)
(***************************************************************************)
EXTENDS Integers, Sequences, FiniteSets, TLC

VARIABLES current_data, previous_data, payload, pc

\* the state of one invocation of main: the parsed arguments, the artefact
\* files, the report files, the platforms still to process, the payloads
\* returned so far, the previous paths resolved for the platform at hand,
\* the position of the baseline loop, the aggregate line on the console,
\* the exit status, the exception that ended the run, the clock that
\* generated_at reads, and what the invocations before this one left behind
VARIABLES args, files, outputs, platforms, results, file_pairs, pair_index,
          console, exit_code, error, clock, history

runVars == <<args, files, outputs, platforms, results, file_pairs, pair_index,
             console, exit_code, error, clock, history>>

vars == <<current_data, previous_data, payload, pc, runVars>>

(***************************************************************************)
(* Bounds of the model.                                                    *)
(***************************************************************************)
\* largest per-status-code request count of an endpoint
MaxCount == 2
\* largest number of files of one asset category
MaxFiles == 3
\* largest byte size of one asset category
MaxBytes == 2
\* largest value of the one layout metric of a screen
MaxMetric == 2
\* largest number of keys one list of a diff holds in the runs over long
\* documents
MaxListed == 8
\* largest number of invocations in a row over the same files
MaxRuns == 3

(***************************************************************************)
(* Python dictionaries and sorting.                                        *)
(***************************************************************************)
EmptyDict == [k \in {} |-> 0]

\* dict.get(key, default)
Get(d, k, default) == IF k \in DOMAIN d THEN d[k] ELSE default

\* dict.get(key): the value, or None
GetOpt(d, k) == IF k \in DOMAIN d THEN <<d[k]>> ELSE <<>>

\* every string the model uses as a dictionary key or list element, in
\* ascending code-point order (the order of Python's sorted on str)
StringOrder ==
    << "GET /e1", "GET /e2", "GET /e3", "GET /e4", "GET /e5", "GET /e6",
       "GET /e7", "GET /e8", "GET /e9",
       "GET /feed", "GET /login", "POST /login",
       "api.example.com", "cdn.example.com",
       "detail", "fonts", "home", "images", "layouts",
       "res1", "res2", "res3", "res4", "res5", "res6", "res7", "res8", "res9",
       "screen1", "screen2", "screen3", "screen4", "screen5", "screen6",
       "screen7", "screen8", "screen9",
       "settings" >>

\* sorted(S) for a set S of strings
Sorted(S) == SelectSeq(StringOrder, LAMBDA s : s \in S)

Range(seq) == {seq[i] : i \in 1..Len(seq)}

\* all dictionaries with keys among Keys and values among Values
Dicts(Keys, Values) == UNION {[S -> Values] : S \in SUBSET Keys}

\* a difference taken with its sign
Signed(n) == n

Abs(n) == IF n < 0 THEN -n ELSE n

(***************************************************************************)
(* The artefact documents, as their producers write them.                  *)
(***************************************************************************)
EndpointKeys == {"GET /feed", "GET /login"}
HostNames == {"api.example.com", "cdn.example.com"}
StatusNames == {"200"}

\* one endpoint of aggregate_summary: hosts is sorted(set), status_codes
\* counts the requests seen per status code
NetworkEntries ==
    {[hosts |-> Sorted(H), status_codes |-> sc] :
        H \in SUBSET HostNames, sc \in Dicts(StatusNames, 1..MaxCount)}

\* network-summary.json with endpoints drawn from Entries, or the {} that
\* load_json gives for a missing file
NetworkDocsOver(Entries) ==
    {EmptyDict} \cup {[endpoints |-> eps] : eps \in Dicts(EndpointKeys, Entries)}

NetworkDocs == NetworkDocsOver(NetworkEntries)

PlainNetworkEntry ==
    [hosts |-> <<"api.example.com">>, status_codes |-> [s \in {"200"} |-> 1]]

CategoryNames == {"fonts", "images"}

\* one category of build_summary: count files of bytes bytes in all
AssetEntries == {[count |-> c, bytes |-> b] : c \in 1..MaxFiles, b \in 1..MaxBytes}

RECURSIVE SumField(_, _, _)
\* sum(d[k][field] for k in Keys)
SumField(d, Keys, field) ==
    IF Keys = {} THEN 0
    ELSE LET k == CHOOSE x \in Keys : TRUE
         IN d[k][field] + SumField(d, Keys \ {k}, field)

\* build_summary: the totals are the sums over the categories
build_summary(categories) ==
    [categories |-> categories,
     totals |-> [files |-> SumField(categories, DOMAIN categories, "count"),
                 bytes |-> SumField(categories, DOMAIN categories, "bytes")]]

\* assets-summary.json with categories drawn from Entries, or {}
AssetDocsOver(Entries) ==
    {EmptyDict} \cup {build_summary(cats) : cats \in Dicts(CategoryNames, Entries)}

AssetDocs == AssetDocsOver(AssetEntries)

PlainAssetEntry == [count |-> 3, bytes |-> 1]

ScreenNames == {"home", "settings"}
StatusValues == {"passed", "failed"}
MetricsValues == {[w |-> m] : m \in 1..MaxMetric}

\* one screen of tokens.json: metrics and status, either of which a
\* producer may leave out
TokenEntries ==
    {[f \in S |-> IF f = "metrics" THEN m ELSE st] :
        S \in SUBSET {"metrics", "status"}, m \in MetricsValues, st \in StatusValues}

\* tokens.json with screens drawn from Entries, or {}
TokenDocsOver(Entries) ==
    {EmptyDict} \cup {[screens |-> scr] : scr \in Dicts(ScreenNames, Entries)}

TokenDocs == TokenDocsOver(TokenEntries)

PlainTokenEntry == [metrics |-> [w |-> 1], status |-> "passed"]

(***************************************************************************)
(* The key sets every differencer walks, in sorted order.                  *)
(***************************************************************************)
\* a differencer that takes added from the keys both documents hold
AddedKeysShared(current_keys, previous_keys) == Sorted(current_keys \cap previous_keys)

\* sorted(current_keys - previous_keys)
AddedKeys(current_keys, previous_keys) == Sorted(current_keys \ previous_keys)

\* a differencer that takes removed from the wrong side
RemovedKeysSwapped(current_keys, previous_keys) == Sorted(current_keys \ previous_keys)

\* sorted(previous_keys - current_keys)
RemovedKeys(current_keys, previous_keys) == Sorted(previous_keys \ current_keys)

\* current_keys & previous_keys
SharedKeys(current_keys, previous_keys) == current_keys \cap previous_keys

(***************************************************************************)
(* diff_network                                                            *)
(***************************************************************************)
NetworkFields == {"hosts", "status_codes"}

NetworkSnapshot(endpoints, key) ==
    [endpoint |-> key,
     hosts |-> Get(endpoints[key], "hosts", <<>>),
     status_codes |-> Get(endpoints[key], "status_codes", EmptyDict)]

\* a delta that looks at hosts alone
NetworkDeltaHostsOnly(current_entry, previous_entry) ==
    [field \in {f \in {"hosts"} : GetOpt(current_entry, f) # GetOpt(previous_entry, f)} |->
        [before |-> GetOpt(previous_entry, field), after |-> GetOpt(current_entry, field)]]

NetworkDelta(current_entry, previous_entry) ==
    [field \in {f \in NetworkFields : GetOpt(current_entry, f) # GetOpt(previous_entry, f)} |->
        [before |-> GetOpt(previous_entry, field), after |-> GetOpt(current_entry, field)]]

diff_network(current, previous) ==
    LET current_endpoints == Get(current, "endpoints", EmptyDict)
        previous_endpoints == Get(previous, "endpoints", EmptyDict)
        current_keys == DOMAIN current_endpoints
        previous_keys == DOMAIN previous_endpoints
        added_keys == AddedKeys(current_keys, previous_keys)
        added == [i \in 1..Len(added_keys) |->
                     NetworkSnapshot(current_endpoints, added_keys[i])]
        removed_keys == RemovedKeys(current_keys, previous_keys)
        removed == [i \in 1..Len(removed_keys) |->
                       NetworkSnapshot(previous_endpoints, removed_keys[i])]
        shared == SharedKeys(current_keys, previous_keys)
        changed_keys == Sorted({key \in shared :
            DOMAIN NetworkDelta(current_endpoints[key], previous_endpoints[key]) # {}})
        changed == [i \in 1..Len(changed_keys) |->
                       [endpoint |-> changed_keys[i],
                        changes |-> NetworkDelta(current_endpoints[changed_keys[i]],
                                                 previous_endpoints[changed_keys[i]])]]
    IN [added |-> added,
        removed |-> removed,
        changed |-> changed,
        totals |-> [added |-> Len(added),
                    removed |-> Len(removed),
                    changed |-> Len(changed),
                    current |-> Cardinality(DOMAIN current_endpoints),
                    previous |-> Cardinality(DOMAIN previous_endpoints)]]

(***************************************************************************)
(* diff_assets                                                             *)
(***************************************************************************)
AssetSnapshot(categories, key) ==
    [category |-> key,
     count |-> Get(categories[key], "count", 0),
     bytes |-> Get(categories[key], "bytes", 0)]

\* a comparison that looks at count alone
AssetEntryChangedCountOnly(current_entry, previous_entry) ==
    GetOpt(current_entry, "count") # GetOpt(previous_entry, "count")

AssetEntryChanged(current_entry, previous_entry) ==
    \/ GetOpt(current_entry, "count") # GetOpt(previous_entry, "count")
    \/ GetOpt(current_entry, "bytes") # GetOpt(previous_entry, "bytes")

diff_assets(current, previous) ==
    LET current_categories == Get(current, "categories", EmptyDict)
        previous_categories == Get(previous, "categories", EmptyDict)
        current_keys == DOMAIN current_categories
        previous_keys == DOMAIN previous_categories
        added_keys == AddedKeys(current_keys, previous_keys)
        added == [i \in 1..Len(added_keys) |->
                     AssetSnapshot(current_categories, added_keys[i])]
        removed_keys == RemovedKeys(current_keys, previous_keys)
        removed == [i \in 1..Len(removed_keys) |->
                       AssetSnapshot(previous_categories, removed_keys[i])]
        changed_keys == Sorted({key \in SharedKeys(current_keys, previous_keys) :
            AssetEntryChanged(current_categories[key], previous_categories[key])})
        changed == [i \in 1..Len(changed_keys) |->
                       [category |-> changed_keys[i],
                        before |-> previous_categories[changed_keys[i]],
                        after |-> current_categories[changed_keys[i]]]]
    IN [added |-> added,
        removed |-> removed,
        changed |-> changed,
        totals |-> [current |-> Get(current, "totals", EmptyDict),
                    previous |-> Get(previous, "totals", EmptyDict)]]

(***************************************************************************)
(* diff_tokens                                                             *)
(***************************************************************************)
MetricsDelta(current_entry, previous_entry) ==
    GetOpt(current_entry, "metrics") # GetOpt(previous_entry, "metrics")

StatusDelta(current_entry, previous_entry) ==
    GetOpt(current_entry, "status") # GetOpt(previous_entry, "status")

\* a changed entry with the two statuses the wrong way round
TokenChangeSwapped(key, current_entry, previous_entry) ==
    [screen |-> key,
     metrics_changed |-> MetricsDelta(current_entry, previous_entry),
     status_before |-> GetOpt(current_entry, "status"),
     status_after |-> GetOpt(previous_entry, "status")]

\* the entry appended to changed for one screen
TokenChange(key, current_entry, previous_entry) ==
    [screen |-> key,
     metrics_changed |-> MetricsDelta(current_entry, previous_entry),
     status_before |-> GetOpt(previous_entry, "status"),
     status_after |-> GetOpt(current_entry, "status")]

diff_tokens(current, previous) ==
    LET current_screens == Get(current, "screens", EmptyDict)
        previous_screens == Get(previous, "screens", EmptyDict)
        current_keys == DOMAIN current_screens
        previous_keys == DOMAIN previous_screens
        changed_keys == Sorted({key \in SharedKeys(current_keys, previous_keys) :
            \/ MetricsDelta(current_screens[key], previous_screens[key])
            \/ StatusDelta(current_screens[key], previous_screens[key])})
        changed == [i \in 1..Len(changed_keys) |->
                       TokenChange(changed_keys[i], current_screens[changed_keys[i]],
                                   previous_screens[changed_keys[i]])]
    IN [added |-> AddedKeys(current_keys, previous_keys),
        removed |-> RemovedKeys(current_keys, previous_keys),
        changed |-> changed,
        totals |-> [current |-> Cardinality(DOMAIN current_screens),
                    previous |-> Cardinality(DOMAIN previous_screens)]]

(***************************************************************************)
(* risk_rating                                                             *)
(***************************************************************************)
Sections == {"network", "assets", "tokens"}

\* a delta that leaves totals.changed out of the sum
SectionDeltaNoChanged(diff_payload, section) ==
    LET section_data == Get(diff_payload, section, EmptyDict)
        totals == Get(section_data, "totals", EmptyDict)
    IN IF section = "assets"
       THEN Abs(Get(Get(totals, "current", EmptyDict), "files", 0)
                - Get(Get(totals, "previous", EmptyDict), "files", 0))
       ELSE Get(totals, "added", 0) + Get(totals, "removed", 0)

\* a delta that rates assets by totals.bytes
SectionDeltaBytes(diff_payload, section) ==
    LET section_data == Get(diff_payload, section, EmptyDict)
        totals == Get(section_data, "totals", EmptyDict)
    IN IF section = "assets"
       THEN Abs(Get(Get(totals, "current", EmptyDict), "bytes", 0)
                - Get(Get(totals, "previous", EmptyDict), "bytes", 0))
       ELSE Get(totals, "added", 0) + Get(totals, "removed", 0) + Get(totals, "changed", 0)

\* a delta that adds the two file counts of assets
SectionDeltaSum(diff_payload, section) ==
    LET section_data == Get(diff_payload, section, EmptyDict)
        totals == Get(section_data, "totals", EmptyDict)
    IN IF section = "assets"
       THEN Abs(Get(Get(totals, "current", EmptyDict), "files", 0)
                + Get(Get(totals, "previous", EmptyDict), "files", 0))
       ELSE Get(totals, "added", 0) + Get(totals, "removed", 0) + Get(totals, "changed", 0)

\* a delta that takes the changed endpoints off the count
SectionDeltaLessChanged(diff_payload, section) ==
    LET section_data == Get(diff_payload, section, EmptyDict)
        totals == Get(section_data, "totals", EmptyDict)
    IN IF section = "assets"
       THEN Abs(Get(Get(totals, "current", EmptyDict), "files", 0)
                - Get(Get(totals, "previous", EmptyDict), "files", 0))
       ELSE Get(totals, "added", 0) + Get(totals, "removed", 0) - Get(totals, "changed", 0)

\* the delta risk_rating appends to counts for one section
SectionDelta(diff_payload, section) ==
    LET section_data == Get(diff_payload, section, EmptyDict)
        totals == Get(section_data, "totals", EmptyDict)
    IN IF section = "assets"
       THEN Abs(Get(Get(totals, "current", EmptyDict), "files", 0)
                - Get(Get(totals, "previous", EmptyDict), "files", 0))
       ELSE Get(totals, "added", 0) + Get(totals, "removed", 0) + Get(totals, "changed", 0)

\* a rating whose medium band ends below 5
risk_rating_strict(diff_payload) ==
    LET aggregate == SectionDelta(diff_payload, "network")
                     + SectionDelta(diff_payload, "assets")
                     + SectionDelta(diff_payload, "tokens")
    IN IF aggregate = 0 THEN [level |-> "low", label |-> "stable", score |-> aggregate]
       ELSE IF aggregate < 5 THEN [level |-> "medium", label |-> "review", score |-> aggregate]
       ELSE [level |-> "high", label |-> "attention", score |-> aggregate]

risk_rating(diff_payload) ==
    LET aggregate == SectionDelta(diff_payload, "network")
                     + SectionDelta(diff_payload, "assets")
                     + SectionDelta(diff_payload, "tokens")
    IN IF aggregate = 0 THEN [level |-> "low", label |-> "stable", score |-> aggregate]
       ELSE IF aggregate <= 5 THEN [level |-> "medium", label |-> "review", score |-> aggregate]
       ELSE [level |-> "high", label |-> "attention", score |-> aggregate]

(***************************************************************************)
(* The run.  The state after loading is the three (current, previous)      *)
(* pairs that load_json returned; process_platform then builds the payload *)
(* from them.                                                              *)
(***************************************************************************)
NoDocs == [s \in Sections |-> EmptyDict]

\* main has not been invoked: the differencers are applied to documents
\* already loaded
Idle ==
    /\ args = EmptyDict
    /\ files = EmptyDict
    /\ outputs = EmptyDict
    /\ platforms = <<>>
    /\ results = <<>>
    /\ file_pairs = EmptyDict
    /\ pair_index = 0
    /\ console = <<>>
    /\ exit_code = <<>>
    /\ error = "none"
    /\ clock = 0
    /\ history = <<>>

\* one artefact type in full detail, the other two artefacts not captured
InitNetwork ==
    /\ current_data \in {[NoDocs EXCEPT !.network = d] : d \in NetworkDocs}
    /\ previous_data \in {[NoDocs EXCEPT !.network = d] : d \in NetworkDocs}

InitAssets ==
    /\ current_data \in {[NoDocs EXCEPT !.assets = d] : d \in AssetDocs}
    /\ previous_data \in {[NoDocs EXCEPT !.assets = d] : d \in AssetDocs}

InitTokens ==
    /\ current_data \in {[NoDocs EXCEPT !.tokens = d] : d \in TokenDocs}
    /\ previous_data \in {[NoDocs EXCEPT !.tokens = d] : d \in TokenDocs}

\* all three artefact types at once, each entry in its plain form
PlainDocs ==
    [network : NetworkDocsOver({PlainNetworkEntry}),
     assets : AssetDocsOver({PlainAssetEntry}),
     tokens : TokenDocsOver({PlainTokenEntry})]

InitPlain ==
    /\ current_data \in PlainDocs
    /\ previous_data \in PlainDocs

Init ==
    /\ InitNetwork \/ InitAssets \/ InitTokens \/ InitPlain
    /\ payload = EmptyDict
    /\ pc = "loaded"
    /\ Idle

\* process_platform, from the loaded pairs to the rated payload
diffs(current, previous) ==
    [network |-> diff_network(current.network, previous.network),
     assets |-> diff_assets(current.assets, previous.assets),
     tokens |-> diff_tokens(current.tokens, previous.tokens)]

build_payload(current, previous) ==
    LET d == diffs(current, previous)
    IN [network |-> d.network, assets |-> d.assets, tokens |-> d.tokens,
        risk |-> risk_rating(d)]

BuildPayload ==
    /\ pc = "loaded"
    /\ payload' = build_payload(current_data, previous_data)
    /\ pc' = "done"
    /\ UNCHANGED <<current_data, previous_data>>
    /\ UNCHANGED runVars

Next == BuildPayload

Spec == Init /\ [][Next]_vars

(***************************************************************************)
(* What the claims speak of: the keys of the loaded documents and the keys *)
(* a finished payload reports.                                             *)
(***************************************************************************)
Done == pc = "done"

\* the keys a list of report entries names under field
ItemKeys(list, field) == {list[i][field] : i \in 1..Len(list)}

CurrentEndpoints == Get(current_data.network, "endpoints", EmptyDict)
PreviousEndpoints == Get(previous_data.network, "endpoints", EmptyDict)
CurrentCategories == Get(current_data.assets, "categories", EmptyDict)
PreviousCategories == Get(previous_data.assets, "categories", EmptyDict)
CurrentScreens == Get(current_data.tokens, "screens", EmptyDict)
PreviousScreens == Get(previous_data.tokens, "screens", EmptyDict)

NetworkAdded == ItemKeys(payload.network.added, "endpoint")
NetworkRemoved == ItemKeys(payload.network.removed, "endpoint")
NetworkChanged == ItemKeys(payload.network.changed, "endpoint")
AssetsAdded == ItemKeys(payload.assets.added, "category")
AssetsRemoved == ItemKeys(payload.assets.removed, "category")
AssetsChanged == ItemKeys(payload.assets.changed, "category")
TokensAdded == Range(payload.tokens.added)
TokensRemoved == Range(payload.tokens.removed)
TokensChanged == ItemKeys(payload.tokens.changed, "screen")

\* added, removed and changed split the keys as a DiffResult must
KeySplit(added, removed, changed, currentKeys, previousKeys) ==
    /\ added = currentKeys \ previousKeys
    /\ removed = previousKeys \ currentKeys
    /\ changed \subseteq currentKeys \cap previousKeys
    /\ added \cap removed = {}
    /\ added \cap changed = {}
    /\ removed \cap changed = {}

\* len(added) + len(removed) + len(changed) of one DiffResult
ListedChanges(result) == Len(result.added) + Len(result.removed) + Len(result.changed)

\* totals.files of an asset document, 0 when missing
FilesOf(doc) == Get(Get(doc, "totals", EmptyDict), "files", 0)
BytesOf(doc) == Get(Get(doc, "totals", EmptyDict), "bytes", 0)

\* C1: for each of the three differencers, added is exactly the current
\* keys less the previous keys, removed is exactly the previous keys less
\* the current keys, changed lies within the keys of both, and the three
\* are pairwise disjoint.
C1_KeySplit ==
    Done =>
        /\ KeySplit(NetworkAdded, NetworkRemoved, NetworkChanged,
                    DOMAIN CurrentEndpoints, DOMAIN PreviousEndpoints)
        /\ KeySplit(AssetsAdded, AssetsRemoved, AssetsChanged,
                    DOMAIN CurrentCategories, DOMAIN PreviousCategories)
        /\ KeySplit(TokensAdded, TokensRemoved, TokensChanged,
                    DOMAIN CurrentScreens, DOMAIN PreviousScreens)

\* a run in which every differencer reports an added and a removed key
C1_Witness ==
    /\ Done
    /\ NetworkAdded # {} /\ NetworkRemoved # {}
    /\ AssetsAdded # {} /\ AssetsRemoved # {}
    /\ TokensAdded # {} /\ TokensRemoved # {}

\* C2: the tokens contribution to the score is len(added) + len(removed) +
\* len(changed) of the tokens DiffResult.
C2_TokensContribution ==
    Done => SectionDelta(payload, "tokens") = ListedChanges(payload.tokens)

\* C3: the totals.added, totals.removed and totals.changed of the network
\* DiffResult are the lengths of its lists, and the network contribution to
\* the score is their sum.
C3_NetworkContribution ==
    Done =>
        /\ payload.network.totals.added = Len(payload.network.added)
        /\ payload.network.totals.removed = Len(payload.network.removed)
        /\ payload.network.totals.changed = Len(payload.network.changed)
        /\ SectionDelta(payload, "network") = ListedChanges(payload.network)

\* one endpoint against an empty previous: added holds it, contribution 1
C3_Witness ==
    /\ Done
    /\ DOMAIN PreviousEndpoints = {}
    /\ NetworkAdded = {"GET /feed"}
    /\ SectionDelta(payload, "network") = 1

\* C4: the assets contribution to the score is the absolute difference of
\* the two documents' totals.files, a missing totals.files counting as 0,
\* whatever the bytes and the per-category lists are.
C4_AssetsContribution ==
    Done =>
        SectionDelta(payload, "assets")
            = Abs(FilesOf(current_data.assets) - FilesOf(previous_data.assets))

\* the file count is unchanged, the bytes and the categories are not, and
\* assets contribute nothing
C4_Witness ==
    /\ Done
    /\ FilesOf(current_data.assets) = FilesOf(previous_data.assets)
    /\ BytesOf(current_data.assets) # BytesOf(previous_data.assets)
    /\ AssetsChanged # {}
    /\ SectionDelta(payload, "assets") = 0

\* C5: the score is the sum of the three deltas risk_rating collects, and
\* it fixes level and label: 0 is low/stable, 1..5 is medium/review, above
\* 5 is high/attention.
C5_Thresholds ==
    Done =>
        LET risk == payload.risk
        IN /\ risk.score = SectionDelta(payload, "network")
                           + SectionDelta(payload, "assets")
                           + SectionDelta(payload, "tokens")
           /\ risk.score >= 0
           /\ risk.score = 0 => (risk.level = "low" /\ risk.label = "stable")
           /\ (1 <= risk.score /\ risk.score <= 5) =>
                  (risk.level = "medium" /\ risk.label = "review")
           /\ risk.score > 5 => (risk.level = "high" /\ risk.label = "attention")

\* a score on the upper edge of the medium band
C5_Witness ==
    /\ Done
    /\ payload.risk.score = 5
    /\ payload.risk.level = "medium"

C7_TokensChanged ==
    Done =>
        /\ \A key \in DOMAIN CurrentScreens \cap DOMAIN PreviousScreens :
               key \in TokensChanged <=>
                   \/ GetOpt(CurrentScreens[key], "metrics")
                          # GetOpt(PreviousScreens[key], "metrics")
                   \/ GetOpt(CurrentScreens[key], "status")
                          # GetOpt(PreviousScreens[key], "status")
        /\ \A i \in 1..Len(payload.tokens.changed) :
               LET entry == payload.tokens.changed[i]
                   cur == CurrentScreens[entry.screen]
                   prev == PreviousScreens[entry.screen]
               IN /\ entry.metrics_changed
                         = (GetOpt(cur, "metrics") # GetOpt(prev, "metrics"))
                  /\ entry.status_before = GetOpt(prev, "status")
                  /\ entry.status_after = GetOpt(cur, "status")

\* one screen changed in its metrics alone, the other in its status alone
C7_Witness ==
    /\ Done
    /\ Len(payload.tokens.changed) = 2
    /\ payload.tokens.changed[1].metrics_changed
    /\ payload.tokens.changed[1].status_before = <<"passed">>
    /\ payload.tokens.changed[1].status_after = <<"passed">>
    /\ ~payload.tokens.changed[2].metrics_changed
    /\ payload.tokens.changed[2].status_before = <<"passed">>
    /\ payload.tokens.changed[2].status_after = <<"failed">>

\* C8: a shared category is in changed exactly when its count or its bytes
\* differs, and totals.current and totals.previous are the totals of the
\* two documents as loaded.
C8_AssetsChanged ==
    Done =>
        /\ \A key \in DOMAIN CurrentCategories \cap DOMAIN PreviousCategories :
               key \in AssetsChanged <=>
                   \/ CurrentCategories[key].count # PreviousCategories[key].count
                   \/ CurrentCategories[key].bytes # PreviousCategories[key].bytes
        /\ payload.assets.totals.current = Get(current_data.assets, "totals", EmptyDict)
        /\ payload.assets.totals.previous = Get(previous_data.assets, "totals", EmptyDict)

\* one category changed in its bytes alone, the other equal, and the two
\* totals blocks different
C8_Witness ==
    /\ Done
    /\ DOMAIN CurrentCategories = CategoryNames
    /\ DOMAIN PreviousCategories = CategoryNames
    /\ CurrentCategories["fonts"].count = PreviousCategories["fonts"].count
    /\ CurrentCategories["fonts"].bytes # PreviousCategories["fonts"].bytes
    /\ AssetsChanged = {"fonts"}
    /\ payload.assets.totals.current # payload.assets.totals.previous

\* C9: documents diffed against themselves give empty added, removed and
\* changed in all three differencers, score 0 and level low.
C9_SelfDiff ==
    (Done /\ current_data = previous_data) =>
        /\ \A section \in Sections :
               /\ payload[section].added = <<>>
               /\ payload[section].removed = <<>>
               /\ payload[section].changed = <<>>
        /\ payload.risk.score = 0
        /\ payload.risk.level = "low"

\* three non-empty documents diffed against themselves
C9_Witness ==
    /\ Done
    /\ current_data = previous_data
    /\ DOMAIN CurrentEndpoints = EndpointKeys
    /\ DOMAIN CurrentCategories = CategoryNames
    /\ DOMAIN CurrentScreens = ScreenNames

\* the keys of one document are all added and none changed or removed
AllAdded(added, removed, changed, currentKeys) ==
    /\ added = currentKeys
    /\ removed = {}
    /\ changed = {}

\* C10: for each differencer, a non-empty current document against an empty
\* previous document has every current key in added and nothing in changed
\* or removed.
C10_EmptyPrevious ==
    Done =>
        /\ (DOMAIN CurrentEndpoints # {} /\ DOMAIN PreviousEndpoints = {}) =>
               /\ AllAdded(NetworkAdded, NetworkRemoved, NetworkChanged,
                           DOMAIN CurrentEndpoints)
               /\ Len(payload.network.added) = Cardinality(DOMAIN CurrentEndpoints)
        /\ (DOMAIN CurrentCategories # {} /\ DOMAIN PreviousCategories = {}) =>
               /\ AllAdded(AssetsAdded, AssetsRemoved, AssetsChanged,
                           DOMAIN CurrentCategories)
               /\ Len(payload.assets.added) = Cardinality(DOMAIN CurrentCategories)
        /\ (DOMAIN CurrentScreens # {} /\ DOMAIN PreviousScreens = {}) =>
               /\ AllAdded(TokensAdded, TokensRemoved, TokensChanged,
                           DOMAIN CurrentScreens)
               /\ Len(payload.tokens.added) = Cardinality(DOMAIN CurrentScreens)

\* three documents of two keys each, nothing captured before
C10_Witness ==
    /\ Done
    /\ previous_data = NoDocs
    /\ NetworkAdded = EndpointKeys
    /\ AssetsAdded = CategoryNames
    /\ TokensAdded = ScreenNames

(***************************************************************************)
(* The files of one invocation.  A file is its text: absent, a JSON        *)
(* object, a JSON array, text that is not JSON, the rendered narrative, or *)
(* what a write that was cut short leaves behind.                          *)
(***************************************************************************)
Platforms == {"ios", "android"}

\* what the positional argument may hold; "web" is no platform
PlatformArgs == {"ios", "android", "both", "web"}

\* the platform directories a path can name
PlatformDirs == PlatformArgs \ {"both"}

\* the three file pairs of process_platform, in its order
PairOrder == <<"network", "assets", "tokens">>

\* where a file of one artefact may lie: the current file, its two
\* siblings <name>.prev.json and <name>.baseline.json, and the file of the
\* same name under the previous root
Locations == {"current", "prev", "baseline", "root"}

AbsentFile == [kind |-> "absent", value |-> EmptyDict]
InvalidText == [kind |-> "invalid", value |-> EmptyDict]
ArrayText == [kind |-> "array", value |-> EmptyDict]
\* bytes that are not UTF-8
UndecodableText == [kind |-> "undecodable", value |-> EmptyDict]
PartialText == [kind |-> "partial", value |-> EmptyDict]
ObjectText(doc) == [kind |-> "object", value |-> doc]
MarkdownText(lines) == [kind |-> "markdown", value |-> lines]

\* Path.exists
exists(file) == file.kind # "absent"

\* load_json: {} for no path, a missing file, or text json.loads rejects;
\* otherwise whatever json.loads returns, a dict or a list. read_text
\* decodes the bytes first, and its UnicodeDecodeError is not caught
load_json(file) ==
    IF ~exists(file) THEN [type |-> "dict", value |-> EmptyDict]
    ELSE IF file.kind = "undecodable"
         THEN [type |-> "UnicodeDecodeError", value |-> EmptyDict]
    ELSE IF file.kind = "object" THEN [type |-> "dict", value |-> file.value]
    ELSE IF file.kind = "array" THEN [type |-> "list", value |-> EmptyDict]
    ELSE [type |-> "dict", value |-> EmptyDict]

\* the exception the loop over the pairs ends with, "none" when it runs
\* through: each pair loads its current file, then its previous one, then
\* calls .get on the two
RECURSIVE load_error(_, _, _)
load_error(current, previous, index) ==
    IF index > Len(PairOrder) THEN "none"
    ELSE LET section == PairOrder[index]
         IN IF current[section].type = "UnicodeDecodeError" THEN "UnicodeDecodeError"
            ELSE IF previous[section].type = "UnicodeDecodeError" THEN "UnicodeDecodeError"
            ELSE IF current[section].type # "dict" \/ previous[section].type # "dict"
                 THEN "AttributeError"
            ELSE load_error(current, previous, index + 1)

\* a resolution that prefers the .baseline.json sibling to the .prev.json one
resolve_previous_baseline_first(fs, platform, section, root) ==
    IF root /\ exists(fs[<<platform, section, "root">>]) THEN "root"
    ELSE IF exists(fs[<<platform, section, "baseline">>]) THEN "baseline"
    ELSE IF exists(fs[<<platform, section, "prev">>]) THEN "prev"
    ELSE "none"

\* resolve_previous(path, root=previous_root): the location of the file to
\* diff against, "none" for None; root says whether a previous root is given
resolve_previous(fs, platform, section, root) ==
    IF root /\ exists(fs[<<platform, section, "root">>]) THEN "root"
    ELSE IF exists(fs[<<platform, section, "prev">>]) THEN "prev"
    ELSE IF exists(fs[<<platform, section, "baseline">>]) THEN "baseline"
    ELSE "none"

\* the file a FilePair.previous names
previous_file(fs, platform, section, location) ==
    IF location = "none" THEN AbsentFile ELSE fs[<<platform, section, location>>]

(***************************************************************************)
(* format_markdown: the narrative, one tuple per line.                     *)
(***************************************************************************)
NarrativeCap == 5

\* a slice that keeps the whole list
TakeAll(seq, n) == seq

\* seq[:n]
Take(seq, n) == SubSeq(seq, 1, IF Len(seq) < n THEN Len(seq) ELSE n)

\* str.upper on a platform name
Upper(platform) ==
    CASE platform = "ios" -> "IOS"
      [] platform = "android" -> "ANDROID"
      [] OTHER -> "WEB"

\* a network block that goes on to list the changed endpoints
NetworkLinesWithChanged(network) ==
    LET totals == Get(network, "totals", EmptyDict)
        added == Take(Get(network, "added", <<>>), NarrativeCap)
        removed == Take(Get(network, "removed", <<>>), NarrativeCap)
        changed == Take(Get(network, "changed", <<>>), NarrativeCap)
    IN << <<"## Network">>,
          <<"- Added: ", Get(totals, "added", 0)>>,
          <<"- Removed: ", Get(totals, "removed", 0)>>,
          <<"- Changed: ", Get(totals, "changed", 0)>> >>
       \o [i \in 1..Len(added) |-> <<"  - + ", added[i].endpoint>>]
       \o [i \in 1..Len(removed) |-> <<"  - - ", removed[i].endpoint>>]
       \o [i \in 1..Len(changed) |-> <<"  - delta ", changed[i].endpoint>>]

NetworkLines(network) ==
    LET totals == Get(network, "totals", EmptyDict)
        added == Take(Get(network, "added", <<>>), NarrativeCap)
        removed == Take(Get(network, "removed", <<>>), NarrativeCap)
    IN << <<"## Network">>,
          <<"- Added: ", Get(totals, "added", 0)>>,
          <<"- Removed: ", Get(totals, "removed", 0)>>,
          <<"- Changed: ", Get(totals, "changed", 0)>> >>
       \o [i \in 1..Len(added) |-> <<"  - + ", added[i].endpoint>>]
       \o [i \in 1..Len(removed) |-> <<"  - - ", removed[i].endpoint>>]

AssetLines(assets) ==
    LET totals == Get(assets, "totals", EmptyDict)
        changed == Take(Get(assets, "changed", <<>>), NarrativeCap)
    IN << <<"## Assets">>,
          <<"- Current files: ", Get(Get(totals, "current", EmptyDict), "files", 0)>>,
          <<"- Previous files: ", Get(Get(totals, "previous", EmptyDict), "files", 0)>> >>
       \o [i \in 1..Len(changed) |->
              <<"  - delta ", changed[i].category,
                Get(changed[i].before, "count", 0), Get(changed[i].after, "count", 0)>>]

TokenLines(tokens) ==
    LET totals == Get(tokens, "totals", EmptyDict)
        added == Take(Get(tokens, "added", <<>>), NarrativeCap)
        removed == Take(Get(tokens, "removed", <<>>), NarrativeCap)
    IN << <<"## Design Tokens">>,
          <<"- Screens tracked: ", Get(totals, "current", 0)>>,
          <<"- Added screens: ", Len(Get(tokens, "added", <<>>))>>,
          <<"- Removed screens: ", Len(Get(tokens, "removed", <<>>))>> >>
       \o [i \in 1..Len(added) |-> <<"  - + ", added[i]>>]
       \o [i \in 1..Len(removed) |-> <<"  - - ", removed[i]>>]

\* a test that takes a section without findings for an empty one
TruthyFindings(d) ==
    \/ Get(d, "added", <<>>) # <<>>
    \/ Get(d, "removed", <<>>) # <<>>
    \/ Get(d, "changed", <<>>) # <<>>

\* a dict is truthy when it has a key
Truthy(d) == DOMAIN d # {}

format_markdown(platform, diff_payload) ==
    LET network == Get(diff_payload, "network", EmptyDict)
        assets == Get(diff_payload, "assets", EmptyDict)
        tokens == Get(diff_payload, "tokens", EmptyDict)
        risk == Get(diff_payload, "risk", EmptyDict)
    IN << <<"# ", Upper(platform), " Diff Summary">>, <<"">> >>
       \o (IF Truthy(risk)
           THEN << <<"- Risk: ", Get(risk, "label", "n/a"), Get(risk, "score", 0)>> >>
           ELSE <<>>)
       \o (IF Truthy(network) THEN NetworkLines(network) ELSE <<>>)
       \o (IF Truthy(assets) THEN AssetLines(assets) ELSE <<>>)
       \o (IF Truthy(tokens) THEN TokenLines(tokens) ELSE <<>>)

(***************************************************************************)
(* main and process_platform over the files.                               *)
(***************************************************************************)
\* the parsed command line: previous_root and output_dir say whether the
\* option is given
Args ==
    [platform : PlatformArgs, previous_root : BOOLEAN,
     output_dir : BOOLEAN, store_baseline : BOOLEAN]

\* a parser that lets any platform name through
accepts_any(platform) == TRUE

\* choices=["ios", "android", "both"] of the positional argument
accepts(platform) == platform \in {"ios", "android", "both"}

\* platforms = [args.platform] if args.platform != "both" else ["ios", "android"]
platform_list(platform) ==
    IF platform # "both" THEN <<platform>> ELSE <<"ios", "android">>

\* a target directory that both platforms write into
target_dir_shared(a, platform) ==
    IF a.output_dir THEN <<"output_dir", "ios">> ELSE <<"reports", "ios">>

\* target_dir = output_dir or report_dir, with output_dir = args.output_dir / platform
target_dir(a, platform) ==
    IF a.output_dir THEN <<"output_dir", platform>> ELSE <<"reports", platform>>

OutputNames == {"diff-summary.json", "diff-summary.md"}

OutputPaths == {"output_dir", "reports"} \X PlatformDirs \X OutputNames

output_path(a, platform, name) ==
    <<target_dir(a, platform)[1], target_dir(a, platform)[2], name>>

\* a baseline written over the current file itself
baseline_path_in_place(platform, section) == <<platform, section, "current">>

\* a baseline kept beside the current file as <name>.baseline.json
baseline_path_baseline(platform, section) == <<platform, section, "baseline">>

\* pair.current.with_suffix(pair.current.suffix.replace(".json", ".prev.json"))
baseline_path(platform, section) == <<platform, section, "prev">>

\* the payload of process_platform: platform, generated_at, the three
\* diffs and the risk
report(platform, now, current, previous) ==
    LET p == build_payload(current, previous)
    IN [platform |-> platform, generated_at |-> now,
        network |-> p.network, assets |-> p.assets, tokens |-> p.tokens,
        risk |-> p.risk]

RECURSIVE total_score(_)
\* sum(item.get("risk", {}).get("score", 0) for item in results)
total_score(res) ==
    IF res = <<>> THEN 0
    ELSE Get(Get(Head(res), "risk", EmptyDict), "score", 0) + total_score(Tail(res))

\* a main that prints the aggregate for any number of results
aggregate_line_always(res) == <<total_score(res)>>

\* what main prints after the loop: the aggregate score when there are two
\* results, nothing otherwise
aggregate_line(res) == IF Len(res) = 2 THEN <<total_score(res)>> ELSE <<>>

\* a main that fails the run when a platform rates high
exit_status_gated(res) ==
    IF \E i \in 1..Len(res) : res[i].risk.level = "high" THEN 1 ELSE 0

\* main returns normally: the interpreter exits with status 0
exit_status(res) == 0

\* the platform process_platform is working on
Platform == Head(platforms)

\* a main that catches the exception, reports it and returns normally
RaiseCaught(exception, code) ==
    /\ error' = exception
    /\ exit_code' = <<0>>
    /\ pc' = "exited"

\* an exception nobody catches ends the interpreter with status code
Raise(exception, code) ==
    /\ error' = exception
    /\ exit_code' = <<code>>
    /\ pc' = "exited"

\* main: parse_args, then the list of platforms
ParseArgs ==
    /\ pc = "start"
    /\ IF accepts(args.platform)
       THEN /\ platforms' = platform_list(args.platform)
            /\ pc' = "process"
            /\ UNCHANGED <<error, exit_code>>
       ELSE /\ Raise("SystemExit", 2)
            /\ UNCHANGED platforms
    /\ UNCHANGED <<current_data, previous_data, payload, args, files, outputs,
                   results, file_pairs, pair_index, console, clock>>
    /\ UNCHANGED history

\* process_platform up to the payload: the previous paths are resolved, the
\* three pairs are loaded and diffed, the risk is rated
LoadAndDiff ==
    /\ pc = "process"
    /\ LET resolved == [s \in Sections |->
                           resolve_previous(files, Platform, s, args.previous_root)]
           current == [s \in Sections |-> load_json(files[<<Platform, s, "current">>])]
           previous == [s \in Sections |->
                           load_json(previous_file(files, Platform, s, resolved[s]))]
       IN /\ file_pairs' = resolved
          /\ IF load_error(current, previous, 1) # "none"
             THEN /\ Raise(load_error(current, previous, 1), 1)
                  /\ UNCHANGED <<current_data, previous_data, payload, clock>>
             ELSE /\ current_data' = [s \in Sections |-> current[s].value]
                  /\ previous_data' = [s \in Sections |-> previous[s].value]
                  /\ payload' = report(Platform, clock,
                                       [s \in Sections |-> current[s].value],
                                       [s \in Sections |-> previous[s].value])
                  /\ clock' = clock + 1
                  /\ pc' = "write_json"
                  /\ UNCHANGED <<error, exit_code>>
    /\ UNCHANGED <<args, files, outputs, platforms, results, pair_index, console>>
    /\ UNCHANGED history

\* Path.write_text: the file holds the text, or the write fails with an
\* OSError and leaves the file as it was or cut short
WriteOutput(name, text, next) ==
    LET path == output_path(args, Platform, name)
    IN \/ /\ outputs' = [outputs EXCEPT ![path] = text]
          /\ pc' = next
          /\ UNCHANGED <<error, exit_code>>
       \/ /\ \E left \in {outputs[path], PartialText} :
                 outputs' = [outputs EXCEPT ![path] = left]
          /\ Raise("OSError", 1)

\* a process_platform that stores the baseline before it writes the narrative
after_json_store(a) == IF a.store_baseline THEN "store" ELSE "write_md"

\* what follows the structured document: the narrative
after_json(a) == "write_md"

\* a process_platform that stores the baseline whether asked to or not
after_markdown_store(a) == "store"

\* what follows the narrative: the baseline loop under store_baseline
after_markdown(a) == IF a.store_baseline THEN "store" ELSE "return"

\* json_path.write_text(json.dumps(payload, indent=2))
WriteJson ==
    /\ pc = "write_json"
    /\ WriteOutput("diff-summary.json", ObjectText(payload), after_json(args))
    /\ UNCHANGED <<current_data, previous_data, payload, args, files, platforms,
                   results, file_pairs, pair_index, console, clock>>
    /\ UNCHANGED history

\* markdown_path.write_text(format_markdown(platform, payload))
WriteMarkdown ==
    /\ pc = "write_md"
    /\ WriteOutput("diff-summary.md", MarkdownText(format_markdown(Platform, payload)),
                   after_markdown(args))
    /\ UNCHANGED <<current_data, previous_data, payload, args, files, platforms,
                   results, file_pairs, pair_index, console, clock>>
    /\ UNCHANGED history

\* a copy that stops short of the end of its source
copyfile_short(source) == PartialText

\* shutil.copy2: the destination ends up holding the bytes of the source
copyfile(source) == source

\* where the baseline loop goes after the pair at pair_index
AfterPair == IF pair_index = Len(PairOrder) THEN "return" ELSE "store"

\* the baseline loop: a pair whose current file is missing is passed over
StoreSkip ==
    /\ pc = "store"
    /\ ~exists(files[<<Platform, PairOrder[pair_index], "current">>])
    /\ pair_index' = pair_index + 1
    /\ pc' = AfterPair
    /\ UNCHANGED <<current_data, previous_data, payload, args, files, outputs,
                   platforms, results, file_pairs, console, exit_code, error, clock>>
    /\ UNCHANGED history

\* shutil.copy2 opens the destination for writing, which empties it
CopyOpen ==
    /\ pc = "store"
    /\ exists(files[<<Platform, PairOrder[pair_index], "current">>])
    /\ LET dest == baseline_path(Platform, PairOrder[pair_index])
       IN \/ /\ files' = [files EXCEPT ![dest] = PartialText]
             /\ pc' = "copying"
             /\ UNCHANGED <<error, exit_code>>
          \/ /\ Raise("OSError", 1)
             /\ UNCHANGED files
    /\ UNCHANGED <<current_data, previous_data, payload, args, outputs, platforms,
                   results, file_pairs, pair_index, console, clock>>
    /\ UNCHANGED history

\* shutil.copy2 writes the bytes of the source, or fails part way
CopyWrite ==
    /\ pc = "copying"
    /\ LET section == PairOrder[pair_index]
           dest == baseline_path(Platform, section)
       IN \/ /\ files' = [files EXCEPT
                             ![dest] = copyfile(files[<<Platform, section, "current">>])]
             /\ pair_index' = pair_index + 1
             /\ pc' = AfterPair
             /\ UNCHANGED <<error, exit_code>>
          \/ /\ Raise("OSError", 1)
             /\ UNCHANGED <<files, pair_index>>
    /\ UNCHANGED <<current_data, previous_data, payload, args, outputs, platforms,
                   results, file_pairs, console, clock>>
    /\ UNCHANGED history

\* process_platform returns its payload; main appends it and goes on to the
\* next platform, or prints the aggregate and returns
Return ==
    /\ pc = "return"
    /\ results' = Append(results, payload)
    /\ platforms' = Tail(platforms)
    /\ pair_index' = 1
    /\ IF Tail(platforms) # <<>>
       THEN /\ pc' = "process"
            /\ UNCHANGED <<console, exit_code>>
       ELSE /\ console' = aggregate_line(Append(results, payload))
            /\ exit_code' = <<exit_status(Append(results, payload))>>
            /\ pc' = "exited"
    /\ UNCHANGED <<current_data, previous_data, payload, args, files, outputs,
                   file_pairs, error, clock>>
    /\ UNCHANGED history

RunNext ==
    \/ ParseArgs
    \/ LoadAndDiff
    \/ WriteJson
    \/ WriteMarkdown
    \/ StoreSkip
    \/ CopyOpen
    \/ CopyWrite
    \/ Return

(***************************************************************************)
(* The files an invocation may find.                                       *)
(***************************************************************************)
SectionKeys(section) ==
    CASE section = "network" -> EndpointKeys
      [] section = "assets" -> CategoryNames
      [] section = "tokens" -> ScreenNames

\* the document of one artefact type that holds the keys Keys, each entry
\* in its plain form
PlainDoc(section, Keys) ==
    CASE section = "network" -> [endpoints |-> [k \in Keys |-> PlainNetworkEntry]]
      [] section = "assets" -> build_summary([k \in Keys |-> PlainAssetEntry])
      [] section = "tokens" -> [screens |-> [k \in Keys |-> PlainTokenEntry]]

FirstKey(section) == {Sorted(SectionKeys(section))[1]}
SecondKey(section) == {Sorted(SectionKeys(section))[2]}

\* one artefact in every shape: the current file missing, captured, not
\* JSON, a JSON array or not UTF-8; each previous candidate missing or
\* present, each with keys of its own
VariedFiles(section) ==
    [current : {AbsentFile, ObjectText(PlainDoc(section, SectionKeys(section))),
                InvalidText, ArrayText, UndecodableText},
     prev : {AbsentFile, ObjectText(PlainDoc(section, FirstKey(section))), InvalidText,
             UndecodableText},
     baseline : {AbsentFile, ObjectText(PlainDoc(section, SecondKey(section)))},
     root : {AbsentFile, ObjectText(PlainDoc(section, {}))}]

\* the other artefacts: nothing captured, or captured now and once before
NothingCaptured(section) == [l \in Locations |-> AbsentFile]

CapturedTwice(section) ==
    [current |-> ObjectText(PlainDoc(section, SectionKeys(section))),
     prev |-> ObjectText(PlainDoc(section, FirstKey(section))),
     baseline |-> AbsentFile,
     root |-> AbsentFile]

\* the file system in which one artefact of one platform is varied and
\* every other artefact of the two platforms is captured twice, or not
FileSystem(platform, section, varied, captured) ==
    [path \in PlatformDirs \X Sections \X Locations |->
        IF path[1] = platform /\ path[2] = section THEN varied[path[3]]
        ELSE IF path[1] \in Platforms
             THEN IF captured
                  THEN CapturedTwice(path[2])[path[3]]
                  ELSE NothingCaptured(path[2])[path[3]]
        ELSE AbsentFile]

FileSystems ==
    UNION {{FileSystem(p, s, v, FALSE), FileSystem(p, s, v, TRUE)} :
              <<p, s, v>> \in
                  UNION {{<<p, s, v>> : v \in VariedFiles(s)} : <<p, s>> \in Platforms \X Sections}}

RunInit ==
    /\ args \in Args
    /\ files \in FileSystems
    /\ outputs = [path \in OutputPaths |-> AbsentFile]
    /\ platforms = <<>>
    /\ results = <<>>
    /\ file_pairs = [s \in Sections |-> "none"]
    /\ pair_index = 1
    /\ console = <<>>
    /\ exit_code = <<>>
    /\ error = "none"
    /\ clock = 0
    /\ history = <<>>
    /\ current_data = NoDocs
    /\ previous_data = NoDocs
    /\ payload = EmptyDict
    /\ pc = "start"

SpecRun == RunInit /\ [][RunNext]_vars

(***************************************************************************)
(* What the claims about one invocation speak of.                          *)
(***************************************************************************)
\* process_platform has just built its payload: the files are still as
\* they were read
Loaded == pc = "write_json"

Exited == pc = "exited"

\* the file read as the current artefact, and the file read as the previous
CurrentFile(section) == files[<<Platform, section, "current">>]
PreviousFile(section) == previous_file(files, Platform, section, file_pairs[section])

\* no file, or content that is not JSON
Unreadable(file) == file.kind \in {"absent", "invalid", "partial", "undecodable"}

\* the keys of a loaded document and the keys its diff reports
LoadedKeys(data, section) ==
    CASE section = "network" -> DOMAIN Get(data.network, "endpoints", EmptyDict)
      [] section = "assets" -> DOMAIN Get(data.assets, "categories", EmptyDict)
      [] section = "tokens" -> DOMAIN Get(data.tokens, "screens", EmptyDict)

ReportedAdded(section) ==
    CASE section = "network" -> NetworkAdded
      [] section = "assets" -> AssetsAdded
      [] section = "tokens" -> TokensAdded

ReportedRemoved(section) ==
    CASE section = "network" -> NetworkRemoved
      [] section = "assets" -> AssetsRemoved
      [] section = "tokens" -> TokensRemoved

ReportedChanged(section) ==
    CASE section = "network" -> NetworkChanged
      [] section = "assets" -> AssetsChanged
      [] section = "tokens" -> TokensChanged

\* the platforms whose process_platform has returned
ReturnedPlatforms == {results[i].platform : i \in 1..Len(results)}

\* C11: a missing file and a file that is not JSON load as {} and raise
\* nothing; the run goes on, and an artefact whose previous file is missing
\* or not JSON has every current key added and none removed or changed.
C11_MissingIsEmpty ==
    /\ Loaded =>
           \A section \in Sections :
               /\ Unreadable(CurrentFile(section)) => current_data[section] = EmptyDict
               /\ Unreadable(PreviousFile(section)) =>
                      /\ previous_data[section] = EmptyDict
                      /\ ReportedAdded(section) = LoadedKeys(current_data, section)
                      /\ ReportedRemoved(section) = {}
                      /\ ReportedChanged(section) = {}
    /\ (Exited /\ error \in {"AttributeError", "UnicodeDecodeError"}) =>
           \E section \in Sections :
               \/ ~Unreadable(CurrentFile(section)) /\ CurrentFile(section).kind # "object"
               \/ ~Unreadable(PreviousFile(section)) /\ PreviousFile(section).kind # "object"

\* C12: a file holding JSON that is not an object loads as {} and the run
\* of the platform raises nothing.
C12_NonObjectIsEmpty ==
    /\ error # "AttributeError"
    /\ Loaded =>
           \A section \in Sections :
               CurrentFile(section).kind = "array" => current_data[section] = EmptyDict

\* the file the spec's order picks: root, then .baseline.json, then .prev.json
FirstOf(order, present) ==
    LET hits == SelectSeq(order, LAMBDA location : location \in present)
    IN IF hits = <<>> THEN "none" ELSE Head(hits)

\* the candidates of one artefact that a run may pick: the file under the
\* previous root when a root is given, and the two siblings
Candidates(section) ==
    {location \in {"prev", "baseline"} : exists(files[<<Platform, section, location>>])}
    \cup {location \in {"root"} :
              args.previous_root /\ exists(files[<<Platform, section, "root">>])}

\* C13 as stated: the first of the root file, the .baseline.json sibling and
\* the .prev.json sibling that exists is the previous artefact.
C13_BaselineBeforePrev ==
    Loaded =>
        \A section \in Sections :
            file_pairs[section] = FirstOf(<<"root", "baseline", "prev">>, Candidates(section))

\* C13 as amended: the first of the root file, the .prev.json sibling and
\* the .baseline.json sibling that exists is the previous artefact, none
\* when there is none; the diff is taken against that file.
C13_PrevBeforeBaseline ==
    Loaded =>
        \A section \in Sections :
            /\ file_pairs[section] = FirstOf(<<"root", "prev", "baseline">>, Candidates(section))
            /\ previous_data[section] =
                   IF PreviousFile(section).kind = "object"
                   THEN PreviousFile(section).value
                   ELSE EmptyDict

\* both siblings of the network summary exist, no root is given, and the
\* diff is the one against the .prev.json sibling
C13_Witness ==
    /\ Loaded
    /\ ~args.previous_root
    /\ files[<<Platform, "network", "prev">>]
           = ObjectText(PlainDoc("network", FirstKey("network")))
    /\ exists(files[<<Platform, "network", "baseline">>])
    /\ file_pairs.network = "prev"
    /\ NetworkAdded = SecondKey("network")
    /\ NetworkRemoved = {}

\* the paths of the file system a step has changed
Written == {path \in DOMAIN files : files'[path] # files[path]}

\* the baseline of every captured artefact of a returned platform is the
\* file at the given sibling location
StoredAt(location) ==
    \A platform \in ReturnedPlatforms, section \in Sections :
        (args.store_baseline /\ exists(files[<<platform, section, "current">>])) =>
            files[<<platform, section, location>>] = files[<<platform, section, "current">>]

\* C14 as stated: the baseline copy is the .baseline.json sibling, and no
\* step writes any other artefact file, nor any at all unless store_baseline
\* is set.
C14_BaselineSuffix ==
    /\ []StoredAt("baseline")
    /\ [][\A path \in Written : path[3] = "baseline" /\ args.store_baseline]_vars

\* C14 as amended: the baseline copy is the .prev.json sibling of the artefact
\* of the platform in hand, and no step writes any other artefact file, nor
\* any at all unless store_baseline is set.
C14_PrevSuffix ==
    /\ []StoredAt("prev")
    /\ [][\A path \in Written :
              /\ path[1] = Platform
              /\ path[3] = "prev"
              /\ args.store_baseline]_vars

\* a run with store_baseline has ended: the .prev.json sibling of the
\* network summary now holds the captured summary, which it never does
\* before the copy, and the .baseline.json sibling is as it was
C14_Witness ==
    /\ Exited
    /\ error = "none"
    /\ args.store_baseline
    /\ \E platform \in ReturnedPlatforms :
           /\ files[<<platform, "network", "current">>]
                  = ObjectText(PlainDoc("network", SectionKeys("network")))
           /\ files[<<platform, "network", "prev">>]
                  = files[<<platform, "network", "current">>]
           /\ files[<<platform, "network", "baseline">>]
                  = ObjectText(PlainDoc("network", SecondKey("network")))

\* C15: with store_baseline, once process_platform has returned the stored
\* baseline of every current artefact that exists holds exactly the bytes of
\* that artefact; an artefact whose current file is missing is passed over:
\* the loop goes on without an error and neither sibling of it is written.
C15_BaselineIsCurrent ==
    /\ []StoredAt("prev")
    /\ [][\A path \in Written : exists(files[<<path[1], path[2], "current">>])]_vars
    /\ [][(pc = "store" /\ ~exists(CurrentFile(PairOrder[pair_index]))) =>
              /\ error' = "none"
              /\ pc' \in {"store", "return"}
              /\ files' = files]_vars

\* a run with store_baseline has ended well: the network summary was never
\* captured and its earlier baseline is still there, while the assets
\* summary has overwritten its earlier, different baseline
C15_Witness ==
    /\ Exited
    /\ error = "none"
    /\ args.store_baseline
    /\ \E platform \in ReturnedPlatforms :
           /\ ~exists(files[<<platform, "network", "current">>])
           /\ files[<<platform, "network", "prev">>]
                  = ObjectText(PlainDoc("network", FirstKey("network")))
           /\ files[<<platform, "assets", "current">>]
                  = ObjectText(PlainDoc("assets", SectionKeys("assets")))
           /\ files[<<platform, "assets", "prev">>]
                  = files[<<platform, "assets", "current">>]

\* C16: a baseline file is replaced in one step: at no point of a run,
\* failed or not, does a stored baseline hold a part of a file.
C16_AtomicReplace ==
    \A path \in DOMAIN files : files[path].kind # "partial"

\* the diff-summary files of the platforms other than the one in hand
OtherOutputs == {path \in OutputPaths : path[2] # Platform}

\* C17: a write that fails ends the run there and then with a nonzero exit
\* status: the platform in hand is not returned, the step leaves every file
\* of the invocation as it was but the one it was writing, the diff-summary
\* files of the other platforms among them, and no step follows it.
C17_WriteFailure ==
    /\ [][(error = "none" /\ error' = "OSError") =>
              /\ pc' = "exited"
              /\ exit_code' = <<1>>
              /\ results' = results
              /\ \A path \in OtherOutputs : outputs'[path] = outputs[path]
              /\ Cardinality(Written) + Cardinality({path \in OutputPaths :
                                                        outputs'[path] # outputs[path]}) <= 1]_vars
    /\ [][pc # "exited"]_vars
    /\ [](error = "OSError" =>
              /\ Exited
              /\ exit_code = <<1>>
              /\ Platform \notin ReturnedPlatforms)

\* both platforms were asked for; ios was written in full, then the write of
\* the android summary failed part way: the run has ended with status 1, the
\* android markdown was never written and the ios summary is what was written
C17_Witness ==
    /\ Exited
    /\ error = "OSError"
    /\ exit_code = <<1>>
    /\ Len(results) = 1
    /\ Platform = "android"
    /\ args.store_baseline
    /\ outputs[output_path(args, "ios", "diff-summary.json")] = ObjectText(results[1])
    /\ outputs[output_path(args, "android", "diff-summary.json")] = PartialText
    /\ outputs[output_path(args, "android", "diff-summary.md")] = AbsentFile
    /\ \A section \in Sections :
           files[<<"android", section, "prev">>] # files[<<"android", section, "current">>]

\* C18: a platform other than ios, android and both ends the run in
\* parse_args with status 2, before any file is read or written; only ios
\* and android are ever processed.
C18_UnknownPlatform ==
    /\ [](args.platform \notin {"ios", "android", "both"} =>
              /\ pc \in {"start", "exited"}
              /\ Exited => (error = "SystemExit" /\ exit_code = <<2>>)
              /\ results = <<>>
              /\ current_data = NoDocs
              /\ previous_data = NoDocs
              /\ \A path \in OutputPaths : outputs[path] = AbsentFile)
    /\ [][args.platform \notin {"ios", "android", "both"} =>
              /\ files' = files
              /\ outputs' = outputs
              /\ file_pairs' = file_pairs]_vars
    /\ [](pc \notin {"start", "exited"} => Platform \in {"ios", "android"})

\* the platform web was asked for and the run has ended with status 2
C18_Witness ==
    /\ Exited
    /\ args.platform = "web"
    /\ error = "SystemExit"
    /\ exit_code = <<2>>

\* every platform asked for has been returned by process_platform
AllWritten ==
    /\ Exited
    /\ args.platform \in {"ios", "android", "both"}
    /\ Len(results) = (IF args.platform = "both" THEN 2 ELSE 1)

\* C19: a run that has written all its outputs ends with status 0 and no
\* exception, whatever the levels of its reports.
C19_RiskIsAdvisory ==
    AllWritten => (exit_code = <<0>> /\ error = "none")

\* a run has ended with status 0 and a report of level high
C19_Witness ==
    /\ AllWritten
    /\ exit_code = <<0>>
    /\ \E i \in 1..Len(results) :
           /\ results[i].risk.level = "high"
           /\ outputs[output_path(args, results[i].platform, "diff-summary.json")]
                  = ObjectText(results[i])

\* C20: a run of two platforms that ends well has printed one aggregate, the
\* sum of the two scores and nothing else; a run of one platform, and a run
\* that has not ended well, has printed none.
C20_Aggregate ==
    /\ (AllWritten /\ Len(results) = 2) =>
           console = <<results[1].risk.score + results[2].risk.score>>
    /\ ~(AllWritten /\ Len(results) = 2) => console = <<>>

\* a run of both platforms has printed the sum of two scores that differ
C20_Witness ==
    /\ AllWritten
    /\ Len(results) = 2
    /\ results[1].risk.score > 0
    /\ results[2].risk.score > results[1].risk.score
    /\ console = <<results[1].risk.score + results[2].risk.score>>

(***************************************************************************)
(* Runs over long documents: one artefact of ios has up to MaxListed keys  *)
(* added, removed and changed since the run before.                        *)
(***************************************************************************)
KeyPool(section) ==
    CASE section = "network" ->
             <<"GET /e1", "GET /e2", "GET /e3", "GET /e4", "GET /e5", "GET /e6",
               "GET /e7", "GET /e8", "GET /e9">>
      [] section = "assets" ->
             <<"res1", "res2", "res3", "res4", "res5", "res6", "res7", "res8", "res9">>
      [] section = "tokens" ->
             <<"screen1", "screen2", "screen3", "screen4", "screen5", "screen6",
               "screen7", "screen8", "screen9">>

PoolKeys(section, from, to) == {KeyPool(section)[i] : i \in from..to}

\* an entry of the run before that differs from the plain one of today
OlderNetworkEntry ==
    [hosts |-> <<"cdn.example.com">>, status_codes |-> [s \in {"200"} |-> 1]]
OlderAssetEntry == [count |-> 1, bytes |-> 1]
OlderTokenEntry == [metrics |-> [w |-> 2], status |-> "passed"]

\* the document of the run before: the keys Keys, each entry as it was then
OlderDoc(section, Keys) ==
    CASE section = "network" -> [endpoints |-> [k \in Keys |-> OlderNetworkEntry]]
      [] section = "assets" -> build_summary([k \in Keys |-> OlderAssetEntry])
      [] section = "tokens" -> [screens |-> [k \in Keys |-> OlderTokenEntry]]

\* how many keys are changed, added and removed
Churns ==
    {churn \in [changed : 0..MaxListed, added : 0..MaxListed, removed : 0..MaxListed] :
        churn.changed + churn.added + churn.removed <= Len(KeyPool("network"))}

\* the files of one artefact with that churn: the changed keys come first
\* in the pool, then the added ones, then the removed ones
LongFiles(section, churn) ==
    [current |-> ObjectText(PlainDoc(section,
                     PoolKeys(section, 1, churn.changed + churn.added))),
     prev |-> ObjectText(OlderDoc(section,
                     PoolKeys(section, 1, churn.changed)
                     \cup PoolKeys(section, churn.changed + churn.added + 1,
                                   churn.changed + churn.added + churn.removed))),
     baseline |-> AbsentFile,
     root |-> AbsentFile]

LongFileSystems ==
    {FileSystem("ios", section, LongFiles(section, churn), FALSE) :
        section \in Sections, churn \in Churns}

\* the command lines of the runs over long documents
LongArgs == {a \in Args : ~a.previous_root /\ ~a.output_dir}

LongInit ==
    /\ args \in LongArgs
    /\ files \in LongFileSystems
    /\ outputs = [path \in OutputPaths |-> AbsentFile]
    /\ platforms = <<>>
    /\ results = <<>>
    /\ file_pairs = [s \in Sections |-> "none"]
    /\ pair_index = 1
    /\ console = <<>>
    /\ exit_code = <<>>
    /\ error = "none"
    /\ clock = 0
    /\ history = <<>>
    /\ current_data = NoDocs
    /\ previous_data = NoDocs
    /\ payload = EmptyDict
    /\ pc = "start"

SpecLong == LongInit /\ [][RunNext]_vars

(***************************************************************************)
(* What the claims about the two report files speak of.                    *)
(***************************************************************************)
\* both report files of the platform in hand are written
Rendered == pc \in {"store", "copying", "return"}

\* the lines of diff-summary.md and the document in diff-summary.json
NarrativeLines == outputs[output_path(args, Platform, "diff-summary.md")].value
StructuredDoc == outputs[output_path(args, Platform, "diff-summary.json")].value

\* the example lines of the narrative that carry the marker and name a key
\* among Keys
Examples(marker, Keys) ==
    {i \in 1..Len(NarrativeLines) :
        NarrativeLines[i][1] = marker /\ NarrativeLines[i][2] \in Keys}

ExampleKeys(marker, Keys) == {NarrativeLines[i][2] : i \in Examples(marker, Keys)}

Min(a, b) == IF a < b THEN a ELSE b

EndpointsSeen == DOMAIN CurrentEndpoints \cup DOMAIN PreviousEndpoints
CategoriesSeen == DOMAIN CurrentCategories \cup DOMAIN PreviousCategories
ScreensSeen == DOMAIN CurrentScreens \cup DOMAIN PreviousScreens

\* the narrative shows the first min(n, 5) entries of a list of n keys
ShowsFirstFive(marker, Seen, keys) ==
    /\ Cardinality(Examples(marker, Seen)) = Min(Len(keys), 5)
    /\ ExampleKeys(marker, Seen) = {keys[i] : i \in 1..Min(Len(keys), 5)}

\* the keys a list of report entries names under field, in order
KeysOf(list, field) == [i \in 1..Len(list) |-> list[i][field]]

\* C21: of a list of n entries the narrative shows the first min(n, 5) and
\* never more than 5, while the structured document holds all n: every
\* added and every removed endpoint and screen, every changed category.
C21_NarrativeCap ==
    Rendered =>
        /\ ShowsFirstFive("  - + ", EndpointsSeen,
                          KeysOf(StructuredDoc.network.added, "endpoint"))
        /\ ShowsFirstFive("  - - ", EndpointsSeen,
                          KeysOf(StructuredDoc.network.removed, "endpoint"))
        /\ ShowsFirstFive("  - delta ", CategoriesSeen,
                          KeysOf(StructuredDoc.assets.changed, "category"))
        /\ ShowsFirstFive("  - + ", ScreensSeen, StructuredDoc.tokens.added)
        /\ ShowsFirstFive("  - - ", ScreensSeen, StructuredDoc.tokens.removed)
        /\ Len(StructuredDoc.network.added)
               = Cardinality(DOMAIN CurrentEndpoints \ DOMAIN PreviousEndpoints)
        /\ Len(StructuredDoc.network.removed)
               = Cardinality(DOMAIN PreviousEndpoints \ DOMAIN CurrentEndpoints)
        /\ Len(StructuredDoc.tokens.added)
               = Cardinality(DOMAIN CurrentScreens \ DOMAIN PreviousScreens)
        /\ Len(StructuredDoc.tokens.removed)
               = Cardinality(DOMAIN PreviousScreens \ DOMAIN CurrentScreens)
        /\ \A marker \in {"  - + ", "  - - ", "  - delta "} :
               \A Seen \in {EndpointsSeen, CategoriesSeen, ScreensSeen} :
                   Cardinality(Examples(marker, Seen)) <= 5

\* eight endpoints are added: the narrative names five, the document eight
C21_Witness ==
    /\ Rendered
    /\ Len(StructuredDoc.network.added) = 8
    /\ Cardinality(Examples("  - + ", EndpointsSeen)) = 5

Markers == {"  - + ", "  - - ", "  - delta "}

\* the keys of a list that some example line of the narrative names
Named(keys) ==
    {k \in Range(keys) :
        \E i \in 1..Len(NarrativeLines) :
            NarrativeLines[i][1] \in Markers /\ NarrativeLines[i][2] = k}

\* a list with entries has example lines
Exemplified(keys) == keys # <<>> => Named(keys) # {}

\* C22 as stated: each of the three blocks has example lines for its added,
\* its removed and its changed entries, whenever the list has entries.
C22_AllListsShown ==
    Rendered =>
        /\ Exemplified(KeysOf(StructuredDoc.network.added, "endpoint"))
        /\ Exemplified(KeysOf(StructuredDoc.network.removed, "endpoint"))
        /\ Exemplified(KeysOf(StructuredDoc.network.changed, "endpoint"))
        /\ Exemplified(KeysOf(StructuredDoc.assets.added, "category"))
        /\ Exemplified(KeysOf(StructuredDoc.assets.removed, "category"))
        /\ Exemplified(KeysOf(StructuredDoc.assets.changed, "category"))
        /\ Exemplified(StructuredDoc.tokens.added)
        /\ Exemplified(StructuredDoc.tokens.removed)
        /\ Exemplified(KeysOf(StructuredDoc.tokens.changed, "screen"))

\* C22 as amended: the network block and the tokens block have example
\* lines for their added and removed entries and none for the changed ones;
\* the assets block has example lines for its changed entries and none for
\* the added and removed ones.
C22_ListsShown ==
    Rendered =>
        /\ Exemplified(KeysOf(StructuredDoc.network.added, "endpoint"))
        /\ Exemplified(KeysOf(StructuredDoc.network.removed, "endpoint"))
        /\ Named(KeysOf(StructuredDoc.network.changed, "endpoint")) = {}
        /\ Named(KeysOf(StructuredDoc.assets.added, "category")) = {}
        /\ Named(KeysOf(StructuredDoc.assets.removed, "category")) = {}
        /\ Exemplified(KeysOf(StructuredDoc.assets.changed, "category"))
        /\ Exemplified(StructuredDoc.tokens.added)
        /\ Exemplified(StructuredDoc.tokens.removed)
        /\ Named(KeysOf(StructuredDoc.tokens.changed, "screen")) = {}

\* endpoints were added, removed and changed: the narrative names added and
\* removed ones and none of the changed
C22_Witness ==
    /\ Rendered
    /\ Named(KeysOf(StructuredDoc.network.added, "endpoint")) # {}
    /\ Named(KeysOf(StructuredDoc.network.removed, "endpoint")) # {}
    /\ StructuredDoc.network.changed # <<>>
    /\ Named(KeysOf(StructuredDoc.network.changed, "endpoint")) = {}

\* the narrative has the block that starts with the header
HasBlock(header) == \E i \in 1..Len(NarrativeLines) : NarrativeLines[i][1] = header

\* a section of the structured document with nothing added, removed or changed
NoFindings(section) ==
    /\ StructuredDoc[section].added = <<>>
    /\ StructuredDoc[section].removed = <<>>
    /\ StructuredDoc[section].changed = <<>>

BlockHeader(section) ==
    CASE section = "network" -> "## Network"
      [] section = "assets" -> "## Assets"
      [] section = "tokens" -> "## Design Tokens"

SeenOf(section) ==
    CASE section = "network" -> EndpointsSeen
      [] section = "assets" -> CategoriesSeen
      [] section = "tokens" -> ScreensSeen

LevelRank(level) ==
    CASE level = "low" -> 0
      [] level = "medium" -> 1
      [] level = "high" -> 2

\* the endpoints both documents hold and the diff does not list as changed
SharedUnchanged ==
    (DOMAIN CurrentEndpoints \cap DOMAIN PreviousEndpoints) \ NetworkChanged

\* the entries that, put in the place of the current entry of key, make the
\* endpoint a changed one
Changing(key) ==
    {entry \in NetworkEntries : DOMAIN NetworkDelta(entry, PreviousEndpoints[key]) # {}}

\* the payload of the same inputs but for the entry of one endpoint
PayloadWith(key, entry) ==
    build_payload(
        [current_data EXCEPT !.network = [endpoints |->
            [k \in DOMAIN CurrentEndpoints |->
                IF k = key THEN entry ELSE CurrentEndpoints[k]]]],
        previous_data)

\* C24: with one more shared endpoint changed and all else as it was, one
\* more endpoint is listed as changed, the score is not lower and the level
\* is not lower.
C24_Monotonic ==
    Done =>
        \A key \in SharedUnchanged : \A entry \in Changing(key) :
            LET more == PayloadWith(key, entry)
            IN /\ ItemKeys(more.network.changed, "endpoint") = NetworkChanged \cup {key}
               /\ more.assets = payload.assets
               /\ more.tokens = payload.tokens
               /\ more.risk.score >= payload.risk.score
               /\ LevelRank(more.risk.level) >= LevelRank(payload.risk.level)

\* a run that rates low with an endpoint shared and unchanged: changing the
\* endpoint takes the same inputs to a higher score and to medium
C24_Witness ==
    /\ Done
    /\ payload.risk.level = "low"
    /\ \E key \in SharedUnchanged : \E entry \in Changing(key) :
           /\ PayloadWith(key, entry).risk.score > payload.risk.score
           /\ PayloadWith(key, entry).risk.level = "medium"

\* the three DiffResults of a report, without the rest of it
SectionsOf(document) ==
    [network |-> document.network, assets |-> document.assets, tokens |-> document.tokens]

\* the payload in hand is a report
Rated == pc \in {"write_json", "write_md", "store", "copying", "return"}

\* C27: the risk of a report is risk_rating of its three DiffResults alone:
\* the platform and generated_at make no difference, two reports with equal
\* DiffResults have equal risks, the score is a natural number, the level
\* and the label are one of the three pairs, and the DiffResults of the
\* rated payload are those the differencers returned.
C27_RiskIsPure ==
    /\ Rated =>
           /\ payload.risk = risk_rating(SectionsOf(payload))
           /\ \A platform \in PlatformDirs, now \in 0..2 :
                  risk_rating([payload EXCEPT !.platform = platform,
                                              !.generated_at = now]) = payload.risk
           /\ SectionsOf(payload) = diffs(current_data, previous_data)
    /\ \A i, j \in 1..Len(results) :
           /\ SectionsOf(results[i]) = SectionsOf(results[j])
                  => results[i].risk = results[j].risk
           /\ results[i].risk.score \in Nat
           /\ <<results[i].risk.level, results[i].risk.label>>
                  \in {<<"low", "stable">>, <<"medium", "review">>, <<"high", "attention">>}

\* the two platforms were rated at different times on equal DiffResults
\* with findings, and the two risks are the same
C27_Witness ==
    /\ Len(results) = 2
    /\ results[1].platform # results[2].platform
    /\ results[1].generated_at # results[2].generated_at
    /\ SectionsOf(results[1]) = SectionsOf(results[2])
    /\ results[1].risk = results[2].risk
    /\ results[1].risk.score > 0

\* the report files a step has changed
Reported == {path \in OutputPaths : outputs'[path] # outputs[path]}

\* the file system as the platform in hand may see it if it shares no file
\* with the other: the files of the other platform are not there
OwnFiles ==
    [path \in DOMAIN files |-> IF path[1] = Platform THEN files[path] ELSE AbsentFile]

JsonPath == output_path(args, Platform, "diff-summary.json")
MarkdownPath == output_path(args, Platform, "diff-summary.md")

\* C28: one run of process_platform goes in this order: the previous paths
\* are resolved and the diffs and the risk computed while no file of the run
\* is written yet; then the structured document is written; then the
\* narrative, when the structured document holds the payload; then, when
\* both hold the payload, the baselines; and the payload stays what it was
\* computed to be, so that it is the diff against the baseline of before the
\* run and not against the one the run stores.
C28_Order ==
    /\ [][pc = "process" => (files' = files /\ outputs' = outputs)]_vars
    /\ [](Loaded =>
              /\ \A section \in Sections :
                     previous_data[section] = load_json(PreviousFile(section)).value
              /\ SectionsOf(payload) = diffs(current_data, previous_data))
    /\ [][Reported # {} =>
              \/ pc = "write_json" /\ Reported = {JsonPath}
              \/ /\ pc = "write_md"
                 /\ Reported = {MarkdownPath}
                 /\ outputs[JsonPath] = ObjectText(payload)]_vars
    /\ [][Written # {} =>
              /\ outputs[JsonPath] = ObjectText(payload)
              /\ outputs[MarkdownPath] = MarkdownText(format_markdown(Platform, payload))
              /\ Reported = {}]_vars
    /\ [][Rated => (payload' = payload /\ previous_data' = previous_data)]_vars

\* the baseline of the network summary is stored and equals the current
\* file, while the report in hand, already written, still lists the
\* endpoints added since the baseline of before
C28_Witness ==
    /\ pc = "return"
    /\ args.store_baseline
    /\ exists(CurrentFile("network"))
    /\ files[<<Platform, "network", "prev">>] = CurrentFile("network")
    /\ payload.network.added # <<>>
    /\ outputs[JsonPath] = ObjectText(payload)
    /\ outputs[MarkdownPath] = MarkdownText(format_markdown(Platform, payload))

(***************************************************************************)
(* Invocations in a row: the pipeline calls diff_suite.py once per run of  *)
(* its own, each time over the files the call before left behind.          *)
(***************************************************************************)
\* what an invocation leaves behind
Outcome ==
    [results |-> results, files |-> files, outputs |-> outputs,
     error |-> error, exit_code |-> exit_code]

\* the same command line is run again: a new process over the same files
Reinvoke ==
    /\ pc = "exited"
    /\ Len(history) < MaxRuns - 1
    /\ history' = Append(history, Outcome)
    /\ pc' = "start"
    /\ platforms' = <<>>
    /\ results' = <<>>
    /\ file_pairs' = [s \in Sections |-> "none"]
    /\ pair_index' = 1
    /\ console' = <<>>
    /\ exit_code' = <<>>
    /\ error' = "none"
    /\ current_data' = NoDocs
    /\ previous_data' = NoDocs
    /\ payload' = EmptyDict
    /\ UNCHANGED <<args, files, outputs, clock>>

\* the command lines for ios: that of the pipeline, and those of a caller
\* that sets a previous root or leaves the baseline alone
AgainArgs == {a \in Args : a.platform = "ios" /\ ~a.output_dir}

\* one artefact of ios in every shape, the others not captured
AgainFileSystems ==
    {FileSystem("ios", sv[1], sv[2], FALSE) :
        sv \in UNION {{<<s, v>> : v \in VariedFiles(s)} : s \in Sections}}

AgainInit ==
    /\ args \in AgainArgs
    /\ files \in AgainFileSystems
    /\ outputs = [path \in OutputPaths |-> AbsentFile]
    /\ platforms = <<>>
    /\ results = <<>>
    /\ file_pairs = [s \in Sections |-> "none"]
    /\ pair_index = 1
    /\ console = <<>>
    /\ exit_code = <<>>
    /\ error = "none"
    /\ clock = 0
    /\ history = <<>>
    /\ current_data = NoDocs
    /\ previous_data = NoDocs
    /\ payload = EmptyDict
    /\ pc = "start"

AgainNext ==
    \/ ParseArgs
    \/ LoadAndDiff
    \/ WriteJson
    \/ WriteMarkdown
    \/ StoreSkip
    \/ CopyOpen
    \/ CopyWrite
    \/ Return
    \/ Reinvoke

SpecAgain == AgainInit /\ [][AgainNext]_vars

\* the invocation before this one, and whether it and this one ran through
Before == history[Len(history)]
RanTwice == Exited /\ error = "none" /\ history # <<>> /\ Before.error = "none"

\* a report without its generated_at
Undated(document) ==
    [platform |-> document.platform, network |-> document.network,
     assets |-> document.assets, tokens |-> document.tokens, risk |-> document.risk]

\* two report files that differ at most in generated_at
SameText(one, other) ==
    /\ one.kind = other.kind
    /\ one.kind = "object" => Undated(one.value) = Undated(other.value)
    /\ one.kind = "markdown" => one.value = other.value

\* this invocation has reported and left behind what the one before did
SameOutcome ==
    /\ Len(results) = Len(Before.results)
    /\ \A i \in 1..Len(results) : Undated(results[i]) = Undated(Before.results[i])
    /\ files = Before.files
    /\ \A path \in OutputPaths : SameText(outputs[path], Before.outputs[path])

\* C25 as stated: an invocation that follows another with the same
\* arguments over the same current artefacts reports the same, but for
\* generated_at, and leaves the same files, store_baseline or not.
C25_Idempotent == RanTwice => SameOutcome

\* the invocation before the one before ran through as well
RanThrice ==
    /\ RanTwice
    /\ Len(history) >= 2
    /\ history[Len(history) - 1].error = "none"

\* C25 as amended: without store_baseline, or after two invocations that
\* ran through, an invocation reports and leaves what the one before did;
\* with store_baseline an invocation that follows one that ran through
\* leaves the same files and reports the same on every artefact that has
\* no current file or whose previous file is under the previous root.
C25_IdempotentOnceStored ==
    RanTwice =>
        /\ (~args.store_baseline \/ RanThrice) => SameOutcome
        /\ files = Before.files
        /\ \A section \in Sections :
               (file_pairs[section] = "root" \/ ~exists(files[<<"ios", section, "current">>]))
                   => results[1][section] = Before.results[1][section]

\* three invocations with store_baseline: the first reported endpoints as
\* added, the second none, and the third what the second did
C25_Witness ==
    /\ RanThrice
    /\ args.store_baseline
    /\ Len(history) = 2
    /\ history[1].results[1].network.added # <<>>
    /\ history[2].results[1].network.added = <<>>
    /\ results[1].network.added = <<>>
    /\ SameOutcome

\* the payload in hand is that of an invocation with store_baseline and no
\* previous root that follows one that ran through
AfterStored ==
    /\ Loaded
    /\ history # <<>>
    /\ Before.error = "none"
    /\ args.store_baseline
    /\ ~args.previous_root

\* every artefact with a current file is diffed against the stored copy of
\* it and has nothing added, removed or changed
StoredCopyDiffed ==
    \A section \in Sections :
        exists(CurrentFile(section)) =>
            /\ file_pairs[section] = "prev"
            /\ PreviousFile(section) = CurrentFile(section)
            /\ ReportedAdded(section) = {}
            /\ ReportedRemoved(section) = {}
            /\ ReportedChanged(section) = {}

C30_WritesOnlyOutputs ==
    /\ [][\A path \in DOMAIN files :
              path[3] \in {"current", "root", "baseline"} => files'[path] = files[path]]_vars
    /\ [][\A path \in Written :
              /\ args.store_baseline
              /\ path = <<Platform, path[2], "prev">>
              /\ exists(files[<<Platform, path[2], "current">>])]_vars
    /\ [][Reported # {} =>
              Reported \subseteq {output_path(args, Platform, name) :
                                     name \in {"diff-summary.json", "diff-summary.md"}}]_vars
    /\ [](history # <<>> =>
              \A path \in DOMAIN files :
                  path[3] \in {"current", "root", "baseline"}
                      => files[path] = history[1].files[path])

\* two invocations with a previous root and store_baseline have ended: the
\* current file, the file under the root and the older sibling are there
\* unchanged, beside the stored copy and the two report files
C30_Witness ==
    /\ RanTwice
    /\ args.store_baseline
    /\ args.previous_root
    /\ files[<<"ios", "network", "current">>]
           = ObjectText(PlainDoc("network", SectionKeys("network")))
    /\ files[<<"ios", "network", "root">>] = ObjectText(PlainDoc("network", {}))
    /\ files[<<"ios", "network", "baseline">>]
           = ObjectText(PlainDoc("network", SecondKey("network")))
    /\ files[<<"ios", "network", "prev">>] = files[<<"ios", "network", "current">>]
    /\ outputs[<<"reports", "ios", "diff-summary.json">>] = ObjectText(results[1])
    /\ outputs[<<"reports", "ios", "diff-summary.md">>].kind = "markdown"
====
